---- MODULE Spec2Model ----
(***************************************************************************)
(* Bugwatch (src/src/app/page.tsx): the HomePage component's state, its    *)
(* submit handler with the asynchronous image read, the memoised           *)
(* distribution, and the pure helpers extractLocation and prettyTime.      *)
(*                                                                         *)
(* A JavaScript string is modelled as the sequence of its characters, each *)
(* character a one-character TLA+ string; "U+0022", "U+005C" and "U+0060"  *)
(* name the quotation mark, the backslash and the grave accent, "U+00E9"   *)
(* and "U+0301" the e with acute accent and the combining acute accent.    *)
(* An image URL is a sequence of its parts.                                *)
(***************************************************************************)
EXTENDS Integers, Sequences, FiniteSets, Bags, TLC

VARIABLES
    description,   \* useState("")            page.tsx:71
    file,          \* useState<File|null>     page.tsx:72
    sightings,     \* useState(demoSightings) page.tsx:73
    errors,        \* useState<string|null>   page.tsx:74
    distribution,  \* useMemo(..., [sightings]) page.tsx:76-84
    pending,       \* bag of the handleSubmit invocations suspended at `await`
    started,       \* number of handleSubmit invocations that reached readFile
    nextId,        \* number of crypto.randomUUID() values drawn
    now,           \* the value Date.now() returned last
    tagged,        \* last value returned by extractLocation (SpecExtract)
    stamp,         \* argument of prettyTime (SpecTime)
    label          \* last value returned by prettyTime (SpecTime)

vars == <<description, file, sightings, errors, distribution, pending,
          started, nextId, now, tagged, stamp, label>>

----------------------------------------------------------------------------
(* Bounds *)

\* Reads started by handleSubmit in one behaviour of Spec.
MaxSubmits == 2
\* Length of the texts typed in SpecExtract.
MaxLen == 8
\* Length of the collections aggregated in SpecAgg.
MaxAgg == 4
\* Whole minutes of elapsed time covered in SpecTime.
MaxMinutes == 3000

----------------------------------------------------------------------------
(* Strings *)

\* String.prototype.trim strips leading and trailing white space.
WhiteSpace == {" ", "\t", "\n"}

RECURSIVE TrimStart(_)
TrimStart(s) ==
    IF s # <<>> /\ Head(s) \in WhiteSpace THEN TrimStart(Tail(s)) ELSE s

RECURSIVE TrimEnd(_)
TrimEnd(s) ==
    IF s # <<>> /\ s[Len(s)] \in WhiteSpace
    THEN TrimEnd(SubSeq(s, 1, Len(s) - 1))
    ELSE s

Trim(s) == TrimEnd(TrimStart(s))

Unspecified ==
    <<"U", "n", "s", "p", "e", "c", "i", "f", "i", "e", "d">>

----------------------------------------------------------------------------
(* extractLocation, page.tsx:52-58 *)

\* The greedy run [^>]+ starting at position i: the index after its last
\* character.
RECURSIVE RunEnd(_, _)
RunEnd(t, i) ==
    IF i <= Len(t) /\ t[i] # ">" THEN RunEnd(t, i + 1) ELSE i

\* /@<([^>]+)>/ anchored at position i.  The run is maximal, so the
\* character after it is ">" or the end of the text; a shorter run would
\* have to be followed by ">" inside the run, which holds none.
MatchAt(t, i) ==
    /\ i + 1 <= Len(t)
    /\ t[i] = "@"
    /\ t[i + 1] = "<"
    /\ RunEnd(t, i + 2) > i + 2
    /\ RunEnd(t, i + 2) <= Len(t)

\* text.match(re) without the g flag: the leftmost position that matches.
RECURSIVE MatchFrom(_, _)
MatchFrom(t, i) ==
    IF i > Len(t) THEN [found |-> FALSE, capture |-> <<>>]
    ELSE IF MatchAt(t, i)
         THEN [found |-> TRUE,
               capture |-> SubSeq(t, i + 2, RunEnd(t, i + 2) - 1)]
         ELSE MatchFrom(t, i + 1)

\* The rightmost match instead of the leftmost.
RECURSIVE MatchLastFrom(_, _)
MatchLastFrom(t, i) ==
    IF i > Len(t) THEN [found |-> FALSE, capture |-> <<>>]
    ELSE LET later == MatchLastFrom(t, i + 1)
         IN  IF later.found THEN later
             ELSE IF MatchAt(t, i)
                  THEN [found |-> TRUE,
                        capture |-> SubSeq(t, i + 2, RunEnd(t, i + 2) - 1)]
                  ELSE later

MatchLast(t) == MatchLastFrom(t, 1)

Match(t) == MatchFrom(t, 1)

extractLocation(text) ==
    LET match == Match(text)
    IN  IF match.found /\ match.capture # <<>>
        THEN Trim(match.capture)
        ELSE Unspecified

----------------------------------------------------------------------------
(* String order: UTF-16 code units (the JavaScript operators < and <=) and *)
(* String.prototype.localeCompare, page.tsx:82                             *)

AsciiTable ==
    <<" ", "!", "U+0022", "#", "$", "%", "&", "'", "(", ")", "*", "+", ",", "-",
      ".", "/", "0", "1", "2", "3", "4", "5", "6", "7", "8", "9", ":", ";",
      "<", "=", ">", "?", "@", "A", "B", "C", "D", "E", "F", "G", "H", "I",
      "J", "K", "L", "M", "N", "O", "P", "Q", "R", "S", "T", "U", "V", "W",
      "X", "Y", "Z", "[", "U+005C", "]", "^", "_", "U+0060", "a", "b", "c", "d", "e",
      "f", "g", "h", "i", "j", "k", "l", "m", "n", "o", "p", "q", "r", "s",
      "t", "u", "v", "w", "x", "y", "z", "{", "|", "}", "~">>

\* The code unit of each ASCII character: its place in the table.
AsciiCode ==
    [c \in {AsciiTable[i] : i \in 1..Len(AsciiTable)} |->
        31 + (CHOOSE i \in 1..Len(AsciiTable) : AsciiTable[i] = c)]

CodeUnit(c) ==
    CASE c = "U+00E9" -> 233
      [] c = "U+0301" -> 769
      [] c = "\t" -> 9
      [] c = "\n" -> 10
      [] OTHER -> AsciiCode[c]

\* -1, 0 or 1: the lexicographic comparison of two sequences of numbers.
RECURSIVE LexCmp(_, _)
LexCmp(k1, k2) ==
    IF k1 = <<>> THEN (IF k2 = <<>> THEN 0 ELSE -1)
    ELSE IF k2 = <<>> THEN 1
    ELSE IF Head(k1) < Head(k2) THEN -1
    ELSE IF Head(k1) > Head(k2) THEN 1
    ELSE LexCmp(Tail(k1), Tail(k2))

CodeUnits(s) == [i \in 1..Len(s) |-> CodeUnit(s[i])]

\* a <= b on JavaScript strings.
CodeUnitLeq(a, b) == LexCmp(CodeUnits(a), CodeUnits(b)) <= 0

\* localeCompare follows the Unicode Collation Algorithm (root locale,
\* default options): the strings are compared in canonical decomposition,
\* first by the primary weights of their characters (the base letter), then
\* by the secondary weights (accents), then by the tertiary weights (case,
\* lower case first).
IsUpper(c) == CodeUnit(c) \in 65..90

\* A lower-case letter is 32 code units after its upper-case letter.
Lower(c) == IF IsUpper(c) THEN AsciiTable[CodeUnit(c) - 31 + 32] ELSE c

\* The characters in the order of their primary weights.
PrimaryOrder ==
    <<"\t", "\n", " ", "_", "-", ",", ";", ":", "!", "?", ".", "'", "U+0022",
      "(", ")", "[", "]", "{", "}", "@", "*", "/", "U+005C", "&", "#", "%", "U+0060",
      "^", "+", "<", "=", ">", "|", "~", "$", "0", "1", "2", "3", "4", "5",
      "6", "7", "8", "9", "a", "b", "c", "d", "e", "f", "g", "h", "i", "j",
      "k", "l", "m", "n", "o", "p", "q", "r", "s", "t", "u", "v", "w", "x",
      "y", "z">>

PrimaryWeight ==
    [c \in {PrimaryOrder[i] : i \in 1..Len(PrimaryOrder)} |->
        CHOOSE i \in 1..Len(PrimaryOrder) : PrimaryOrder[i] = c]

Decompose(c) == IF c = "U+00E9" THEN <<"e", "U+0301">> ELSE <<c>>

RECURSIVE NFD(_)
NFD(s) == IF s = <<>> THEN <<>> ELSE Decompose(Head(s)) \o NFD(Tail(s))

\* The combining accent has no primary weight.
PrimaryKey(s) ==
    LET d == SelectSeq(NFD(s), LAMBDA c : c # "U+0301")
    IN  [i \in 1..Len(d) |-> PrimaryWeight[Lower(d[i])]]

SecondaryKey(s) ==
    LET d == NFD(s)
    IN  [i \in 1..Len(d) |-> IF d[i] = "U+0301" THEN 2 ELSE 1]

TertiaryKey(s) ==
    LET d == NFD(s)
    IN  [i \in 1..Len(d) |-> IF IsUpper(d[i]) THEN 2 ELSE 1]

localeCompare(a, b) ==
    LET p == LexCmp(PrimaryKey(a), PrimaryKey(b))
        s == LexCmp(SecondaryKey(a), SecondaryKey(b))
    IN  IF p # 0 THEN p
        ELSE IF s # 0 THEN s
        ELSE LexCmp(TertiaryKey(a), TertiaryKey(b))

----------------------------------------------------------------------------
(* distribution, page.tsx:76-84 *)

\* counts.set(s.location, (counts.get(s.location) ?? 0) + 1): a Map keeps
\* its keys in the order of their first insertion.
MapIncrement(counts, location) ==
    IF \E i \in 1..Len(counts) : counts[i].location = location
    THEN [i \in 1..Len(counts) |->
            IF counts[i].location = location
            THEN [counts[i] EXCEPT !.count = @ + 1]
            ELSE counts[i]]
    ELSE Append(counts, [location |-> location, count |-> 1])

\* sightings.forEach(...), from index 0 up.
RECURSIVE Tally(_, _)
Tally(list, counts) ==
    IF list = <<>> THEN counts
    ELSE Tally(Tail(list), MapIncrement(counts, Head(list).location))

\* b.count - a.count, without the tie-break on the location.
CompareCountOnly(a, b) == b.count - a.count

\* b.count - a.count || a.location.localeCompare(b.location)
CompareItems(a, b) ==
    IF b.count - a.count # 0
    THEN b.count - a.count
    ELSE localeCompare(a.location, b.location)

\* Array.prototype.sort is stable: an item goes after every item before it
\* that does not compare greater.
RECURSIVE InsertSorted(_, _)
InsertSorted(sorted, x) ==
    IF sorted = <<>> THEN <<x>>
    ELSE IF CompareItems(sorted[Len(sorted)], x) > 0
         THEN Append(InsertSorted(SubSeq(sorted, 1, Len(sorted) - 1), x),
                     sorted[Len(sorted)])
         ELSE Append(sorted, x)

RECURSIVE SortItems(_, _)
SortItems(items, sorted) ==
    IF items = <<>> THEN sorted
    ELSE SortItems(Tail(items), InsertSorted(sorted, Head(items)))

Distribution(list) == SortItems(Tally(list, <<>>), <<>>)

\* useMemo with an empty dependency list: the first value for ever.
UseMemoStale(prevDeps, deps, cached, fresh) == cached

\* useMemo(() => ..., [sightings]): recomputed in the render that follows a
\* change of the dependency.
UseMemo(prevDeps, deps, cached, fresh) ==
    IF deps # prevDeps THEN fresh ELSE cached

----------------------------------------------------------------------------
(* prettyTime, page.tsx:60-68 *)

MsPerMinute == 60000
MinutesPerHour == 60
HoursPerDay == 24

\* Math.floor(a / b)
FloorDiv(a, b) == a \div b

\* Math.round(a / b) for b > 0: the nearest integer, a half towards
\* +Infinity.  \div rounds towards -Infinity.
RoundDiv(a, b) == (2 * a + b) \div (2 * b)

Max(a, b) == IF a >= b THEN a ELSE b

\* The label `${n}${unit} ago`.
Label(n, unit) == [n |-> n, unit |-> unit, suffix |-> " ago"]

\* prettyTime(timestamp), with the value Date.now() returns in it.
prettyTime(timestamp, dateNow) ==
    LET diff == dateNow - timestamp
        minutes == Max(1, RoundDiv(diff, MsPerMinute))
        hours == RoundDiv(minutes, MinutesPerHour)
        days == RoundDiv(hours, HoursPerDay)
    IN  IF minutes < MinutesPerHour THEN Label(minutes, "m")
        ELSE IF hours < HoursPerDay THEN Label(hours, "h")
        ELSE Label(days, "d")

----------------------------------------------------------------------------
(* The component's state, page.tsx:13-35 and 70-74 *)

NoFile == "null"
Files == {"f1"}

\* The instant the module is loaded.
LoadTime == 150 * MsPerMinute

DemoDescription1 ==
    <<"T", "i", "n", "y", " ", "b", "e", "e", "t", "l", "e", "s", " ", "n",
      "e", "a", "r", " ", "t", "h", "e", " ", "v", "e", "n", "d", "i", "n",
      "g", " ", "m", "a", "c", "h", "i", "n", "e", "s", ".", " ", "@", "<",
      "S", "c", "i", "e", "n", "c", "e", " ", "A", "t", "r", "i", "u", "m",
      ">">>

DemoDescription2 ==
    <<"F", "r", "u", "i", "t", " ", "f", "l", "i", "e", "s", " ", "a", "r",
      "o", "u", "n", "d", " ", "t", "h", "e", " ", "c", "o", "m", "p", "o",
      "s", "t", " ", "b", "i", "n", ".", " ", "@", "<", "C", "a", "f", "e",
      " ", "P", "a", "t", "i", "o", ">">>

DemoDescription3 ==
    <<"M", "o", "s", "q", "u", "i", "t", "o", " ", "s", "w", "a", "r", "m",
      " ", "c", "l", "o", "s", "e", " ", "t", "o", " ", "t", "h", "e", " ",
      "s", "o", "u", "t", "h", " ", "p", "o", "n", "d", " ", "@", "<", "L",
      "a", "k", "e", "s", "i", "d", "e", " ", "L", "a", "w", "n", ">">>

UnsplashUrl(photo) ==
    <<"https://images.unsplash.com/", photo,
      "?auto=format&fit=crop&w=400&q=80">>

\* The three Date.now() calls of the initialiser return t1 <= t2 <= t3.
demoSightingsAt(t1, t2, t3) ==
    << [id |-> <<"demo", 1>>,
        description |-> DemoDescription1,
        location |->
          <<"S", "c", "i", "e", "n", "c", "e", " ", "A", "t", "r", "i", "u",
            "m">>,
        imageUrl |-> UnsplashUrl("photo-1504518633247-6bf4c7c6f62c"),
        createdAt |-> t1 - 1000 * 60 * 45],
       [id |-> <<"demo", 2>>,
        description |-> DemoDescription2,
        location |-> <<"C", "a", "f", "e", " ", "P", "a", "t", "i", "o">>,
        imageUrl |-> UnsplashUrl("photo-1586953208448-b95ef33822f8"),
        createdAt |-> t2 - 1000 * 60 * 90],
       [id |-> <<"demo", 3>>,
        description |-> DemoDescription3,
        location |->
          <<"L", "a", "k", "e", "s", "i", "d", "e", " ", "L", "a", "w", "n">>,
        imageUrl |-> UnsplashUrl("photo-1438109491414-7198515b166b"),
        createdAt |-> t3 - 1000 * 60 * 150] >>

\* The messages of lines 94, 99 and 44/47, and null.
MsgMissingDescription == "Describe the bug and include @<location>."
MsgMissingImage == "Attach a photo so others can verify the sighting."
MsgImageReadError == "Could not read file"
Null == "null"

\* Date.now(): the clock never goes backwards.  Between two calls it has
\* not advanced, or it has; by how much makes no difference to an order of
\* instants.
DateNow(last) == {last, last + 1}

\* The texts the user puts in the description field.
DescSet ==
    { <<" ">>,
      <<"a", "n", "t">>,
      <<"a", " ", "@", "<", "B", ">">>,
      <<"@", "<", " ", ">">> }

\* reader.readAsDataURL(file): "data:", the media type, ";base64," and the
\* encoded bytes of the file.
readAsDataURL(f) == <<"data:", "image/png", ";base64,", f>>

----------------------------------------------------------------------------
(* handleSubmit, page.tsx:89-121 *)

\* The checks with the photo looked at before the description.
ValidateImageFirst(desc, f) ==
    IF f = NoFile THEN "MissingImage"
    ELSE IF Trim(desc) = <<>> THEN "MissingDescription"
    ELSE "Read"

\* Lines 93-101: the outcome of the two synchronous checks.
Validate(desc, f) ==
    IF Trim(desc) = <<>> THEN "MissingDescription"
    ELSE IF f = NoFile THEN "MissingImage"
    ELSE "Read"

\* The handler up to its first suspension: it returns with an error
\* message set, or it starts readFile and waits for it.  The continuation
\* keeps the description, the file and the sightings of the render whose
\* handler it is.
HandleSubmit ==
    /\ CASE Validate(description, file) = "MissingDescription" ->
              /\ errors' = MsgMissingDescription
              /\ UNCHANGED <<pending, started>>
         [] Validate(description, file) = "MissingImage" ->
              /\ errors' = MsgMissingImage
              /\ UNCHANGED <<pending, started>>
         [] OTHER ->
              /\ started < MaxSubmits
              /\ errors' = Null
              /\ started' = started + 1
              /\ pending' = pending (+) SetToBag(
                    { [description |-> description,
                       file |-> file,
                       sightings |-> sightings] })
    /\ UNCHANGED <<description, file, sightings, distribution, nextId, now,
                   tagged, stamp, label>>

\* setSightings([newSighting, ...sightings]) with the closure's list.
InsertIntoClosure(prev, closure, newSighting) == <<newSighting>> \o closure

\* setSightings((prev) => [...prev, newSighting]).
InsertAtEnd(prev, closure, newSighting) == prev \o <<newSighting>>

\* Line 115: setSightings((prev) => [newSighting, ...prev]).
InsertSighting(prev, closure, newSighting) == <<newSighting>> \o prev

\* The description read from the current state of the form.
DescriptionOfForm(captured, current) == current

\* Lines 105 and 109: `description` is the closure's.
DescriptionOfSubmit(captured, current) == captured

\* Lines 107-113; t is the value of Date.now().  crypto.randomUUID() gives
\* an id no other sighting has.
NewSighting(p, t) ==
    [id |-> <<"uuid", nextId + 1>>,
     description |-> DescriptionOfSubmit(p.description, description),
     location |->
        extractLocation(DescriptionOfSubmit(p.description, description)),
     imageUrl |-> readAsDataURL(p.file),
     createdAt |-> t]

\* readFile resolves: lines 104-117, and the render that follows.
ReadResolve(p) ==
    /\ BagIn(p, pending)
    /\ pending' = pending (-) SetToBag({p})
    /\ nextId' = nextId + 1
    /\ now' \in DateNow(now)
    /\ sightings' =
          InsertSighting(sightings, p.sightings, NewSighting(p, now'))
    /\ description' = <<>>
    /\ file' = NoFile
    /\ distribution' =
          UseMemo(sightings, sightings', distribution, Distribution(sightings'))
    /\ UNCHANGED <<errors, started, tagged, stamp, label>>

\* A catch block that also resets the form.
ReadRejectResetsForm(p) ==
    /\ BagIn(p, pending)
    /\ pending' = pending (-) SetToBag({p})
    /\ errors' = MsgImageReadError
    /\ description' = <<>>
    /\ file' = NoFile
    /\ UNCHANGED <<sightings, distribution, started, nextId, now, tagged,
                   stamp, label>>

\* readFile rejects (reader.onerror, or a result that is no string):
\* lines 118-120.
ReadReject(p) ==
    /\ BagIn(p, pending)
    /\ pending' = pending (-) SetToBag({p})
    /\ errors' = MsgImageReadError
    /\ UNCHANGED <<description, file, sightings, distribution, started,
                   nextId, now, tagged, stamp, label>>

\* Line 150: onChange of the textarea.
SetDescription(d) ==
    /\ description' = d
    /\ UNCHANGED <<file, sightings, errors, distribution, pending, started,
                   nextId, now, tagged, stamp, label>>

\* Line 163: onChange of the file input.
SetFile(f) ==
    /\ file' = f
    /\ UNCHANGED <<description, sightings, errors, distribution, pending,
                   started, nextId, now, tagged, stamp, label>>

\* The state after the first render.  The three Date.now() calls of
\* demoSightings are made in order.
Init ==
    /\ description = <<>>
    /\ file = NoFile
    /\ \E t2 \in DateNow(LoadTime) : \E t3 \in DateNow(t2) :
          /\ sightings = demoSightingsAt(LoadTime, t2, t3)
          /\ now = t3
    /\ errors = Null
    /\ distribution = Distribution(sightings)
    /\ pending = EmptyBag
    /\ started = 0
    /\ nextId = 0
    /\ tagged = Unspecified
    /\ stamp = LoadTime
    /\ label = prettyTime(LoadTime, LoadTime)

Next ==
    \/ HandleSubmit
    \/ \E p \in BagToSet(pending) : ReadResolve(p)
    \/ \E p \in BagToSet(pending) : ReadReject(p)
    \/ \E d \in DescSet : SetDescription(d)
    \/ \E f \in Files \cup {NoFile} : SetFile(f)

Spec == Init /\ [][Next]_vars

----------------------------------------------------------------------------
(* extractLocation on every text: the text grows by one character and the  *)
(* function is applied to it                                               *)

TextChars == {"@", "<", ">", " "}

InitExtract ==
    /\ description = <<>>
    /\ tagged = extractLocation(<<>>)
    /\ file = NoFile
    /\ sightings = demoSightingsAt(LoadTime, LoadTime, LoadTime)
    /\ errors = Null
    /\ distribution = <<>>
    /\ pending = EmptyBag
    /\ started = 0
    /\ nextId = 0
    /\ now = LoadTime
    /\ stamp = LoadTime
    /\ label = prettyTime(LoadTime, LoadTime)

ExtractTyped(c) ==
    /\ Len(description) < MaxLen
    /\ description' = Append(description, c)
    /\ tagged' = extractLocation(description')
    /\ UNCHANGED <<file, sightings, errors, distribution, pending, started,
                   nextId, now, stamp, label>>

NextExtract == \E c \in TextChars : ExtractTyped(c)

SpecExtract == InitExtract /\ [][NextExtract]_vars

----------------------------------------------------------------------------
(* distribution on every collection: a sighting with any of the locations  *)
(* is put in front and the memo is recomputed                              *)

AggLocations ==
    { <<"a">>, <<"B">>, <<"U+00E9">>, <<"e", "U+0301">> }

AggSighting(loc, n) ==
    [id |-> <<"uuid", n>>,
     description |-> <<"@", "<">> \o loc \o <<">">>,
     location |-> loc,
     imageUrl |-> readAsDataURL("f1"),
     createdAt |-> LoadTime]

InitAgg ==
    /\ sightings = <<>>
    /\ distribution = Distribution(<<>>)
    /\ nextId = 0
    /\ description = <<>>
    /\ file = NoFile
    /\ errors = Null
    /\ pending = EmptyBag
    /\ started = 0
    /\ now = LoadTime
    /\ tagged = Unspecified
    /\ stamp = LoadTime
    /\ label = prettyTime(LoadTime, LoadTime)

AggInsert(loc) ==
    /\ Len(sightings) < MaxAgg
    /\ nextId' = nextId + 1
    /\ sightings' = <<AggSighting(loc, nextId + 1)>> \o sightings
    /\ distribution' =
          UseMemo(sightings, sightings', distribution, Distribution(sightings'))
    /\ UNCHANGED <<description, file, errors, pending, started, now, tagged,
                   stamp, label>>

NextAgg == \E loc \in AggLocations : AggInsert(loc)

SpecAgg == InitAgg /\ [][NextAgg]_vars

----------------------------------------------------------------------------
(* prettyTime on every elapsed time: a sighting stamped at `stamp` is       *)
(* rendered at `now`                                                       *)

\* Instants around each whole and each half minute, from two minutes before
\* the stamp (a clock set back) on.
TimeOffsets == {0, 1, 29999, 30000, 59999}

TimeInstants ==
    {LoadTime + m * MsPerMinute + r : m \in (-2)..MaxMinutes, r \in TimeOffsets}

NoLabel == Label(0, "none")

InitTime ==
    /\ stamp = LoadTime
    /\ now \in TimeInstants
    /\ label = NoLabel
    /\ description = <<>>
    /\ file = NoFile
    /\ sightings = <<>>
    /\ errors = Null
    /\ distribution = <<>>
    /\ pending = EmptyBag
    /\ started = 0
    /\ nextId = 0
    /\ tagged = Unspecified

TimeRender ==
    /\ label' = prettyTime(stamp, now)
    /\ UNCHANGED <<description, file, sightings, errors, distribution,
                   pending, started, nextId, now, tagged, stamp>>

NextTime == TimeRender

SpecTime == InitTime /\ [][NextTime]_vars

----------------------------------------------------------------------------
(* Properties *)

Suspended == BagToSet(pending)

\* C1: handleSubmit checks in a fixed order and reports the first check that
\* fails: a description that is blank after trimming gives the
\* missing-description message, with or without a photo; a description that
\* is not blank and no photo gives the missing-photo message; only with both
\* is the read started (and the error cleared), so every suspended read has
\* both; a read that fails gives the read-error message.
C1_ValidationOrder ==
    /\ [](\A p \in Suspended : Trim(p.description) # <<>> /\ p.file # NoFile)
    /\ [][ /\ HandleSubmit =>
                /\ Trim(description) = <<>> =>
                      errors' = MsgMissingDescription /\ pending' = pending
                /\ Trim(description) # <<>> /\ file = NoFile =>
                      errors' = MsgMissingImage /\ pending' = pending
                /\ Trim(description) # <<>> /\ file # NoFile =>
                      /\ errors' = Null
                      /\ BagCardinality(pending') = BagCardinality(pending) + 1
           /\ \A p \in Suspended :
                ReadReject(p) => errors' = MsgImageReadError ]_vars

\* A blank description was submitted with a photo attached.
C1_Witness ==
    /\ errors = MsgMissingDescription
    /\ description = <<" ">>
    /\ file # NoFile

\* C2: a submit that fails changes nothing but the error message: neither
\* the step that runs the two checks (and, when they pass, starts the read)
\* nor the step that handles the failed read changes the collection, the
\* distribution, the description or the file.
C2_FailureKeepsInput ==
    [][ (HandleSubmit \/ \E p \in Suspended : ReadReject(p)) =>
            UNCHANGED <<sightings, distribution, description, file, nextId>>
      ]_vars

\* A read has failed and the form still holds the description and the file.
C2_Witness ==
    /\ errors = MsgImageReadError
    /\ Trim(description) # <<>>
    /\ file # NoFile
    /\ started = 1
    /\ pending = EmptyBag
    /\ nextId = 0

\* C3: every read that succeeds puts exactly one new sighting at the head of
\* the collection and leaves the collection as it was as the rest, also when
\* the submit was started before an earlier insertion; so the collection
\* always holds the demo sightings and one sighting per succeeded read.
C3_InsertAtHead ==
    /\ [](Len(sightings) =
             Len(demoSightingsAt(LoadTime, LoadTime, LoadTime)) + nextId)
    /\ [][ \A p \in Suspended :
             ReadResolve(p) =>
                /\ Len(sightings') = Len(sightings) + 1
                /\ Tail(sightings') = sightings
                /\ \A i \in 1..Len(sightings) :
                      sightings[i].id # Head(sightings').id ]_vars

\* A sighting was inserted while a submit started before the insertion is
\* still waiting for its read.
C3_Witness ==
    /\ nextId >= 1
    /\ \E p \in Suspended : Len(p.sightings) < Len(sightings)

\* C4: the collection is ordered newest first: createdAt never increases
\* from one entry to the next.
C4_NewestFirst ==
    \A i \in 1..(Len(sightings) - 1) :
        sightings[i].createdAt >= sightings[i + 1].createdAt

\* Two sightings were inserted, the clock having advanced between them.
C4_Witness ==
    /\ nextId = 2
    /\ sightings[1].createdAt > sightings[2].createdAt
    /\ sightings[2].createdAt > sightings[3].createdAt

\* C5 as stated: every sighting has a location that is not the empty string
\* and an image reference that is not empty.
C5_NonEmptyLocationAndImage ==
    \A i \in 1..Len(sightings) :
        /\ sightings[i].location # <<>>
        /\ sightings[i].imageUrl # <<>>

\* The sum of the counts of a ranked sequence.
RECURSIVE SumCounts(_)
SumCounts(items) ==
    IF items = <<>> THEN 0 ELSE Head(items).count + SumCounts(Tail(items))

LocationsOf(list) == {list[i].location : i \in 1..Len(list)}

\* C7: the distribution is the projection of the current collection: one
\* entry per location that occurs, each with the number of sightings at that
\* location, the counts adding up to the length of the collection.
C7_DistributionIsProjection ==
    /\ {distribution[i].location : i \in 1..Len(distribution)}
          = LocationsOf(sightings)
    /\ Len(distribution) = Cardinality(LocationsOf(sightings))
    /\ \A i \in 1..Len(distribution) :
          distribution[i].count =
             Cardinality({j \in 1..Len(sightings) :
                             sightings[j].location = distribution[i].location})
    /\ SumCounts(distribution) = Len(sightings)

\* Two sightings were inserted and some location holds two sightings.
C7_Witness ==
    /\ nextId = 2
    /\ \E i \in 1..Len(distribution) : distribution[i].count = 2

\* C10: every sighting's location is extractLocation of its description, and
\* the sighting a read inserts holds the description its submit was started
\* with, whatever the form holds when the read succeeds.
C10_DescriptionOfSubmit ==
    /\ [](\A i \in 1..Len(sightings) :
             sightings[i].location = extractLocation(sightings[i].description))
    /\ [][ \A p \in Suspended :
             ReadResolve(p) =>
                /\ Head(sightings').description = p.description
                /\ Head(sightings').location = extractLocation(p.description)
         ]_vars

\* A sighting was inserted with its tag as location while another submit is
\* suspended whose description is no longer the one in the form.
C10_Witness ==
    /\ nextId >= 1
    /\ Head(sightings).location = <<"B">>
    /\ \E p \in Suspended : p.description # description

----------------------------------------------------------------------------
(* Properties of extractLocation (SpecExtract) *)

\* The tags of t: the pairs <<i, j>> with "@<" at i, ">" at j and no ">"
\* between them, the text X between them at least minLen characters long.
TagsIn(t, minLen) ==
    {ij \in (1..Len(t)) \X (1..Len(t)) :
        /\ ij[1] + 1 <= Len(t)
        /\ t[ij[1]] = "@"
        /\ t[ij[1] + 1] = "<"
        /\ ij[2] >= ij[1] + 2 + minLen
        /\ t[ij[2]] = ">"
        /\ \A k \in (ij[1] + 2)..(ij[2] - 1) : t[k] # ">"}

FirstTag(tags) == CHOOSE ij \in tags : \A other \in tags : ij[1] <= other[1]

TagText(t, ij) == SubSeq(t, ij[1] + 2, ij[2] - 1)

\* trim(X): X from its first to its last character that is no white space.
Trimmed(x) ==
    LET solid == {i \in 1..Len(x) : x[i] \notin WhiteSpace}
    IN  IF solid = {} THEN <<>>
        ELSE SubSeq(x, CHOOSE i \in solid : \A j \in solid : i <= j,
                       CHOOSE i \in solid : \A j \in solid : i >= j)

TagReference(t, minLen) ==
    IF TagsIn(t, minLen) # {}
    THEN Trimmed(TagText(t, FirstTag(TagsIn(t, minLen))))
    ELSE Unspecified

\* C6 as stated: with a tag @<X>, X any text without ">" (the empty text
\* too), the result is trim(X) of the first tag; with no tag it is
\* "Unspecified".
C6_AsStated == tagged = TagReference(description, 0)

\* C6, amended: the tags are those with at least one character between
\* "@<" and ">"; the result is trim(X) of the first of them, and
\* "Unspecified" when there is none.
C6_FirstNonEmptyTag == tagged = TagReference(description, 1)

\* The text holds two tags with different trimmed texts.
C6_Witness ==
    \E a, b \in TagsIn(description, 1) :
        /\ a[1] < b[1]
        /\ Trimmed(TagText(description, a)) # Trimmed(TagText(description, b))
        /\ tagged = Trimmed(TagText(description, a))

----------------------------------------------------------------------------
(* Properties of the distribution (SpecAgg) *)

Reorderings(n) ==
    {f \in [1..n -> 1..n] : \A i, j \in 1..n : i # j => f[i] # f[j]}

Permuted(list, f) == [i \in 1..Len(list) |-> list[f[i]]]

\* Every reordering of the collection gives the same ranked sequence.
OrderIndependent(list) ==
    \A f \in Reorderings(Len(list)) :
        Distribution(Permuted(list, f)) = Distribution(list)

\* C8 as stated: adjacent entries are in descending order of count and, at
\* equal count, in ascending order of the location as strings (a <= b); and
\* the ranked sequence is the same for every order of the collection.
C8_AsStated ==
    /\ \A i \in 1..(Len(distribution) - 1) :
          \/ distribution[i].count > distribution[i + 1].count
          \/ /\ distribution[i].count = distribution[i + 1].count
             /\ CodeUnitLeq(distribution[i].location,
                            distribution[i + 1].location)
    /\ OrderIndependent(sightings)

\* No two different locations of the collection are equal for localeCompare.
CollationDistinct(list) ==
    \A a, b \in LocationsOf(list) : a # b => localeCompare(a, b) # 0

\* C8, amended: adjacent entries are in descending order of count and, at
\* equal count, in the order of localeCompare (a.localeCompare(b) <= 0);
\* the ranked sequence is the same for every order of the collection when
\* no two different locations are equal for localeCompare.
C8_SortedByCollation ==
    /\ \A i \in 1..(Len(distribution) - 1) :
          \/ distribution[i].count > distribution[i + 1].count
          \/ /\ distribution[i].count = distribution[i + 1].count
             /\ localeCompare(distribution[i].location,
                              distribution[i + 1].location) <= 0
    /\ CollationDistinct(sightings) => OrderIndependent(sightings)

\* Two locations tie on the count, were first seen in the other order, and
\* are ranked by localeCompare against the order of their code units.
C8_Witness ==
    /\ Len(distribution) >= 2
    /\ distribution[1].count = distribution[2].count
    /\ localeCompare(distribution[1].location, distribution[2].location) < 0
    /\ ~CodeUnitLeq(distribution[1].location, distribution[2].location)
    /\ sightings[1].location = distribution[1].location
    /\ sightings[Len(sightings)].location = distribution[2].location

----------------------------------------------------------------------------
(* Properties of prettyTime (SpecTime) *)

\* n is x / unitSize rounded to the nearest integer, a half upwards.
RoundsHalfUp(n, x, unitSize) ==
    /\ unitSize * (2 * n - 1) <= 2 * x
    /\ 2 * x < unitSize * (2 * n + 1)

\* The minutes prettyTime works with: the elapsed time rounded half up, and
\* 1 when that is less.
IsMinutesOf(m, elapsed) ==
    \/ m = 1 /\ 2 * elapsed < 3 * MsPerMinute
    \/ m >= 1 /\ RoundsHalfUp(m, elapsed, MsPerMinute)

\* C9: the number in the label is at least 1 for every elapsed time, zero
\* and negative too; minutes are 1..59, hours 1..23, days 1 or more; each
\* step rounds half up: 45 minutes give "45m ago", 150 minutes "3h ago".
C9_LabelAtLeastOne ==
    label # NoLabel =>
      LET elapsed == now - stamp
          near == {m \in (elapsed \div MsPerMinute)..(elapsed \div MsPerMinute + 1) :
                     IsMinutesOf(m, elapsed)} \cup
                  {m \in {1} : IsMinutesOf(m, elapsed)}
      IN  /\ label.n >= 1
          /\ label.suffix = " ago"
          /\ label.unit \in {"m", "h", "d"}
          /\ Cardinality(near) = 1
          /\ \A m \in near :
                /\ label.unit = "m" <=> m < MinutesPerHour
                /\ label.unit = "m" => label.n = m /\ label.n \in 1..59
                /\ label.unit = "h" =>
                      /\ RoundsHalfUp(label.n, m, MinutesPerHour)
                      /\ label.n \in 1..23
                /\ label.unit = "d" =>
                      \E h \in (label.n * HoursPerDay - HoursPerDay)..
                               (label.n * HoursPerDay + HoursPerDay) :
                         /\ h >= HoursPerDay
                         /\ RoundsHalfUp(h, m, MinutesPerHour)
                         /\ RoundsHalfUp(label.n, h, HoursPerDay)
          /\ elapsed = 45 * MsPerMinute => label = Label(45, "m")
          /\ elapsed = 150 * MsPerMinute => label = Label(3, "h")

\* 150 minutes have elapsed and the label reads "3h ago".
C9_Witness ==
    /\ now - stamp = 150 * MsPerMinute
    /\ label = Label(3, "h")

====
